---- MODULE Spec2Model ----
(***************************************************************************)
(* The batch-size / bucket-constraint layer of                             *)
(* nemo/collections/common/data/lhotse/dataloader.py:                      *)
(*   MultimodalSamplingConstraint, FixedBucketBatchSizeConstraint2D and    *)
(*   MultimodalFixedBucketBatchSizeConstraint2D.                           *)
(*                                                                         *)
(* Python numbers are exact rationals [n, d] (d > 0, lowest terms); the    *)
(* record with d = 0 stands for Python's None / a missing attribute.       *)
(* A length or a boundary-table entry is a value [seq, v]: a scalar is     *)
(* [seq |-> FALSE, v |-> <<x>>], a tuple is [seq |-> TRUE, v |-> <<..>>].  *)
(* A call's outcome is [st, val, err, steps]: st = "ok" with the returned  *)
(* value, or st = "raise" with the exception in err; steps counts the      *)
(* iterations of select_bucket's refinement loop (-1: loop not reached).   *)
(* An optional list of the configuration is [some, list]; an entry of a    *)
(* configured 2D table is a list [list |-> <<..>>] until it is converted   *)
(* to a tuple.                                                             *)
(***************************************************************************)
EXTENDS Integers, Sequences, FiniteSets, TLC

VARIABLES
    config,                     \* the LhotseDataLoadingConfig
    bucket_duration_bins,       \* get_lhotse_dataloader_from_config's local
    kind,                       \* class of the constraint object
    token_equivalent_duration,  \* self.token_equivalent_duration
    batch_size,                 \* self.batch_size
    batch_tokens,               \* self.batch_tokens
    quadratic_factor,           \* self.quadratic_factor
    internal,                   \* self._internal (the TokenConstraint)
    max_seq_len_buckets,        \* self.max_seq_len_buckets
    batch_sizes,                \* self.batch_sizes
    example,                    \* the example object last passed to a call
    call,                       \* the last call: [op, ex, len]
    ret,                        \* its outcome
    added,                      \* history: lengths added since the last reset
    fb_state,                   \* a fixed-bucket policy's current bucket and count
    workers,                    \* the constraints of two data-loading workers
    tokenized,                  \* the example tokenize works on, and its last call
    datamodule                  \* a FineTuningDataModule, and its last call

vars == <<config, bucket_duration_bins, kind, token_equivalent_duration, batch_size, batch_tokens,
          quadratic_factor, internal, max_seq_len_buckets, batch_sizes,
          example, call, ret, added, fb_state, workers, tokenized,
          datamodule>>

(***************************************************************************)
(* Bounds of the model.                                                    *)
(***************************************************************************)
\* add calls between two resets
MaxAdds == 3
\* entries of a generated boundary table
MaxBuckets == 3
\* largest token count of a generated length or boundary
MaxTok == 3
\* supervisions of a cut that tokenize works on
MaxSup == 2
\* largest packed_sequence_size of a PackedSequenceSpecs
MaxPacked == 3
\* largest micro_batch_size besides the default of 4
MaxMicro == 3

(***************************************************************************)
(* Numbers.                                                                *)
(***************************************************************************)
None == [n |-> 0, d |-> 0]
IsNone(x) == x.d = 0 /\ x.n = 0

\* float("inf"); Lt and Le order it above every number
Inf == [n |-> 1, d |-> 0]

RECURSIVE Gcd(_, _)
Gcd(a, b) == IF b = 0 THEN a ELSE Gcd(b, a % b)

Abs(a) == IF a < 0 THEN -a ELSE a

\* the rational a / b (b > 0) in lowest terms
R(a, b) ==
    LET g == Gcd(Abs(a), b)
    IN  [n |-> a \div g, d |-> b \div g]

Num(i) == [n |-> i, d |-> 1]

Lt(a, b) == a.n * b.d < b.n * a.d
Le(a, b) == a.n * b.d <= b.n * a.d
Add(a, b) == R(a.n * b.d + b.n * a.d, a.d * b.d)
Sub(a, b) == R(a.n * b.d - b.n * a.d, a.d * b.d)
Mul(a, b) == R(a.n * b.n, a.d * b.d)
\* a / b for b > 0
Div(a, b) == R(a.n * b.d, a.d * b.n)

(***************************************************************************)
(* Values and outcomes.                                                    *)
(***************************************************************************)
Scalar(x) == [seq |-> FALSE, v |-> <<x>>]
Tuple(s) == [seq |-> TRUE, v |-> s]
Pair(a, b) == Tuple(<<a, b>>)
PyNone == Scalar(None)

Bool(b) == Scalar(Num(IF b THEN 1 ELSE 0))
Index(i) == Scalar(Num(i))

Ok(v) == [st |-> "ok", val |-> v, err |-> "", steps |-> -1]
Raise(e) == [st |-> "raise", val |-> PyNone, err |-> e, steps |-> -1]

UnsupportedType == "RuntimeError: Unsupported example type"
UnsupportedTypeOfExample == "RuntimeError: Unsupported type of example"
MicroBatchSizeShouldBe1 == "ValueError: Micro batch size should be 1 when training with packed sequence"
TrainPathPackedInvalid == "ValueError: train_path_packed invalid since packed sequence size is not specified."
NotYetSupported == "AssertionError: 2D bucketing for multimodal sampling is not yet supported."
NoTokenEquivalentDuration == "AssertionError: token_equivalent_duration was not specified"
Untokenized == "AssertionError: Cannot measure tokens-per-second with untokenized supervisions."

CannotUseBucketBatchSize == "AssertionError: Cannot use bucket_batch_size option if bucket_duration_bins are not provided."

AttributeError == "AttributeError"
TypeError == "TypeError"
IndexError == "IndexError"
ValueError == "ValueError"

(***************************************************************************)
(* Examples.  type is the example's class; duration, num_tokens and tpt    *)
(* (len(tokenized_prompted_transcript)) are None when the object has no    *)
(* such attribute; sup lists, per supervision of a Cut, len(s.tokens), or  *)
(* None for a supervision without tokens.                                  *)
(***************************************************************************)
Cut == "Cut"
TextExample == "TextExample"
TextPairExample == "TextPairExample"
Other == "Other"

MkExample(t, dur, nt, tp, sp) ==
    [type |-> t, duration |-> dur, num_tokens |-> nt, tpt |-> tp, sup |-> sp]

Durations == {R(1, 2), Num(1), R(3, 2), Num(2), Num(3)}

Supervisions ==
    {<<>>, <<None>>, <<Num(2)>>, <<Num(1), Num(2)>>, <<None, Num(3)>>}

\* cuts without tokens; some already carry a num_tokens attribute
PlainCuts ==
    {MkExample(Cut, dur, None, None, <<>>) : dur \in Durations}
    \cup {MkExample(Cut, Num(2), nt, None, <<>>) : nt \in {Num(1), Num(5)}}

\* cuts with tokenized supervisions or a prompted transcript
TokenCuts ==
    {MkExample(Cut, dur, None, tp, sp) :
        dur \in {Num(1), R(3, 2)}, tp \in {None, Num(3)}, sp \in Supervisions}

Cuts == PlainCuts \cup TokenCuts

Texts ==
    {MkExample(t, None, Num(k), None, <<>>) :
        t \in {TextExample, TextPairExample}, k \in 0..MaxTok}

Others ==
    {MkExample(Other, dur, nt, None, <<>>) :
        dur \in {None, Num(2)}, nt \in {None, Num(2)}}

Examples == Cuts \cup Texts \cup Others

isinstance(ex, types) == ex.type \in types
hasattr_num_tokens(ex) == ~IsNone(ex.num_tokens)

(***************************************************************************)
(* _measure_tokens (dataloader.py:633-641)                                 *)
(***************************************************************************)
RECURSIVE SumTokens(_)
SumTokens(sp) ==
    IF sp = <<>> THEN 0 ELSE Head(sp).n + SumTokens(Tail(sp))

supervisions_with_tokens(sp) == SelectSeq(sp, LAMBDA s : ~IsNone(s))

\* mutant: the supervisions' tokens are counted before a prompted
\* transcript is looked for
measure_tokens_supervisions_first(cut) ==
    IF cut.type = Cut /\ Len(supervisions_with_tokens(cut.sup)) > 0
    THEN Ok(Scalar(Num(SumTokens(supervisions_with_tokens(cut.sup)))))
    ELSE IF ~IsNone(cut.tpt) THEN Ok(Scalar(cut.tpt))
    ELSE IF cut.type # Cut THEN Raise(AttributeError)
    ELSE Raise(Untokenized)

measure_tokens(cut) ==
    IF ~IsNone(cut.tpt) THEN Ok(Scalar(cut.tpt))
    ELSE IF cut.type # Cut THEN Raise(AttributeError)
    ELSE IF Len(supervisions_with_tokens(cut.sup)) = 0 THEN Raise(Untokenized)
    ELSE Ok(Scalar(Num(SumTokens(supervisions_with_tokens(cut.sup)))))

(***************************************************************************)
(* _measure_tps and TokenPerSecondFilter (dataloader.py:614-646).          *)
(* Durations are positive.                                                 *)
(***************************************************************************)
measure_tps(cut) ==
    LET num_tokens == measure_tokens(cut)
    IN  IF num_tokens.st = "raise" THEN num_tokens
        ELSE Ok(Scalar(Div(num_tokens.val.v[1], cut.duration)))

\* mutant: the filter is enabled only when both ends of the range are set
TokenPerSecondFilter_both(tps_min, tps_max) ==
    [tps_min |-> tps_min, tps_max |-> tps_max,
     enabled |-> Lt(Num(0), tps_min) /\ Lt(tps_max, Inf)]

\* __init__ (lines 620-624), for tps_min <= tps_max
TokenPerSecondFilter(tps_min, tps_max) ==
    [tps_min |-> tps_min, tps_max |-> tps_max,
     enabled |-> Lt(Num(0), tps_min) \/ Lt(tps_max, Inf)]

\* __call__ (lines 626-630)
TokenPerSecondFilter_call(self, ex) ==
    IF ~isinstance(ex, {Cut}) \/ ~self.enabled THEN Ok(Bool(TRUE))
    ELSE LET tps == measure_tps(ex)
         IN  IF tps.st = "raise" THEN tps
             ELSE Ok(Bool(/\ Le(self.tps_min, tps.val.v[1])
                          /\ Le(tps.val.v[1], self.tps_max)))

(***************************************************************************)
(* MultimodalSamplingConstraint (dataloader.py:449-497)                    *)
(***************************************************************************)
MSC == "MultimodalSamplingConstraint"

\* mutant: a num_tokens attribute, when present, is returned first
MSC_measure_length_cached(ted, ex) ==
    IF hasattr_num_tokens(ex) THEN Ok(Scalar(ex.num_tokens))
    ELSE IF isinstance(ex, {Cut})
    THEN IF IsNone(ted) THEN Raise(TypeError)
         ELSE Ok(Scalar(Div(ex.duration, ted)))
    ELSE Raise(UnsupportedType)

MSC_measure_length(ted, ex) ==
    IF isinstance(ex, {Cut})
    THEN IF IsNone(ted) THEN Raise(TypeError)
         ELSE Ok(Scalar(Div(ex.duration, ted)))
    ELSE IF isinstance(ex, {TextExample, TextPairExample})
    THEN Ok(Scalar(ex.num_tokens))
    ELSE Raise(UnsupportedType)

(***************************************************************************)
(* lhotse's TokenConstraint, which MultimodalSamplingConstraint wraps.     *)
(* State: running total, running count, a bound on each (None: no bound)   *)
(* and the optional quadratic factor.                                      *)
(***************************************************************************)
TokenConstraint(max_tokens, max_examples, quadratic_length) ==
    [max_tokens |-> max_tokens, max_examples |-> max_examples,
     quadratic_length |-> quadratic_length,
     current |-> Num(0), num_examples |-> 0]

\* the core measures an example by its num_tokens
TC_measure_length(ex) ==
    IF hasattr_num_tokens(ex) THEN Ok(Scalar(ex.num_tokens))
    ELSE Raise(AttributeError)

\* the quadratic penalty: size + size^2 / quadratic_length
TC_size(tc, size) ==
    IF IsNone(tc.quadratic_length) THEN size
    ELSE Add(size, Div(Mul(size, size), tc.quadratic_length))

TC_add(tc, size) ==
    [tc EXCEPT !.current = Add(@, TC_size(tc, size)),
               !.num_examples = @ + 1]

TC_exceeded(tc) ==
    \/ ~IsNone(tc.max_tokens) /\ Lt(tc.max_tokens, tc.current)
    \/ ~IsNone(tc.max_examples) /\ Lt(tc.max_examples, Num(tc.num_examples))

\* "adding one more typical example would exceed the limit": the example
\* count has reached its bound, or the total plus the mean booked length is
\* above the bound on the total
TC_close_to_exceeding(tc) ==
    \/ ~IsNone(tc.max_examples) /\ Le(tc.max_examples, Num(tc.num_examples))
    \/ /\ ~IsNone(tc.max_tokens)
       /\ tc.num_examples > 0
       /\ Lt(tc.max_tokens,
             Add(tc.current, Div(tc.current, Num(tc.num_examples))))

TC_reset(tc) == [tc EXCEPT !.current = Num(0), !.num_examples = 0]

(***************************************************************************)
(* MultimodalSamplingConstraint.__post_init__ (dataloader.py:470-475)      *)
(***************************************************************************)
\* mutant: batch_size and batch_tokens handed over the wrong way round
MSC_post_init_swapped(bs, bt, qf) == TokenConstraint(bs, bt, qf)

\* mutant: quadratic_factor is not handed to the core
MSC_post_init_no_quadratic(bs, bt, qf) == TokenConstraint(bt, bs, None)

MSC_post_init(bs, bt, qf) == TokenConstraint(bt, bs, qf)

(***************************************************************************)
(* MultimodalSamplingConstraint.add (dataloader.py:477-481): the example   *)
(* after the call, the core after the call and the call's outcome.         *)
(***************************************************************************)
\* mutant: the core is called before the length is stored on the example
MSC_add_delegate_first(ted, tc, ex) ==
    LET m == MSC_measure_length(ted, ex)
        size == TC_measure_length(ex)
    IN  IF size.st = "raise" THEN [ex |-> ex, tc |-> tc, ret |-> size]
        ELSE IF isinstance(ex, {Cut}) /\ m.st = "raise"
        THEN [ex |-> ex, tc |-> TC_add(tc, size.val.v[1]), ret |-> m]
        ELSE [ex |-> IF isinstance(ex, {Cut})
                     THEN [ex EXCEPT !.num_tokens = m.val.v[1]] ELSE ex,
              tc |-> TC_add(tc, size.val.v[1]), ret |-> Ok(PyNone)]

MSC_add(ted, tc, ex) ==
    LET m == MSC_measure_length(ted, ex)
        cached == IF isinstance(ex, {Cut}) /\ m.st = "ok"
                  THEN [ex EXCEPT !.num_tokens = m.val.v[1]] ELSE ex
        size == TC_measure_length(cached)
    IN  IF isinstance(ex, {Cut}) /\ m.st = "raise"
        THEN [ex |-> ex, tc |-> tc, ret |-> m]
        ELSE IF size.st = "raise"
        THEN [ex |-> cached, tc |-> tc, ret |-> size]
        ELSE [ex |-> cached, tc |-> TC_add(tc, size.val.v[1]), ret |-> Ok(PyNone)]

\* exceeded (dataloader.py:483-484)
MSC_exceeded(tc) == TC_exceeded(tc)

\* close_to_exceeding (dataloader.py:486-487)
MSC_close_to_exceeding(tc) == TC_close_to_exceeding(tc)

\* mutant: reset does not reach the core
MSC_reset_skipped(tc) == tc

\* reset (dataloader.py:489-490)
MSC_reset(tc) == TC_reset(tc)

(***************************************************************************)
(* Python's comparison of two lengths or boundaries: numbers compare by    *)
(* value, tuples lexicographically, a number and a tuple do not compare.   *)
(***************************************************************************)
RECURSIVE LexLt(_, _)
LexLt(s, t) ==
    IF t = <<>> THEN FALSE
    ELSE IF s = <<>> THEN TRUE
    ELSE IF Head(s) = Head(t) THEN LexLt(Tail(s), Tail(t))
    ELSE Lt(Head(s), Head(t))

Comparable(x, y) == x.seq = y.seq
PyLt(x, y) == IF x.seq THEN LexLt(x.v, y.v) ELSE Lt(x.v[1], y.v[1])

(***************************************************************************)
(* bisect.bisect_right(a, x), called at dataloader.py:517: the binary      *)
(* search of the standard library, on the 0-based list a (a[i] is a[i+1]   *)
(* here).                                                                  *)
(***************************************************************************)
RECURSIVE bisect_loop(_, _, _, _)
bisect_loop(a, x, lo, hi) ==
    IF lo >= hi THEN Ok(Index(lo))
    ELSE LET mid == (lo + hi) \div 2
         IN  IF ~Comparable(x, a[mid + 1]) THEN Raise(TypeError)
             ELSE IF PyLt(x, a[mid + 1]) THEN bisect_loop(a, x, lo, mid)
             ELSE bisect_loop(a, x, mid + 1, hi)

bisect_right(a, x) == bisect_loop(a, x, 0, Len(a))

(***************************************************************************)
(* FixedBucketBatchSizeConstraint2D (dataloader.py:500-536)                *)
(***************************************************************************)
FB2D == "FixedBucketBatchSizeConstraint2D"
MFB2D == "MultimodalFixedBucketBatchSizeConstraint2D"

\* mutant: any sequence as first entry counts, whatever its length
bucketing_2d_enabled_any_seq(buckets) ==
    IF Len(buckets) = 0 THEN Raise(IndexError)
    ELSE Ok(Bool(buckets[1].seq))

\* bucketing_2d_enabled (dataloader.py:502-504)
bucketing_2d_enabled(buckets) ==
    IF Len(buckets) = 0 THEN Raise(IndexError)
    ELSE Ok(Bool(buckets[1].seq /\ Len(buckets[1].v) = 2))

IsTrue(r) == r.st = "ok" /\ r.val = Bool(TRUE)
IsFalse(r) == r.st = "ok" /\ r.val = Bool(FALSE)

\* mutant: the 1D branch measures tokens instead of the duration
FB2D_measure_length_tokens(buckets, ex) ==
    LET en == bucketing_2d_enabled(buckets)
        tok == measure_tokens(ex)
    IN  IF en.st = "raise" THEN en
        ELSE IF IsNone(ex.duration) THEN Raise(AttributeError)
        ELSE IF IsTrue(en)
        THEN IF tok.st = "raise" THEN tok
             ELSE Ok(Pair(ex.duration, tok.val.v[1]))
        ELSE tok

\* measure_length (dataloader.py:506-510)
FB2D_measure_length(buckets, ex) ==
    LET en == bucketing_2d_enabled(buckets)
        tok == measure_tokens(ex)
    IN  IF en.st = "raise" THEN en
        ELSE IF IsNone(ex.duration) THEN Raise(AttributeError)
        ELSE IF IsTrue(en)
        THEN IF tok.st = "raise" THEN tok
             ELSE Ok(Pair(ex.duration, tok.val.v[1]))
        ELSE Ok(Scalar(ex.duration))

\* MultimodalFixedBucketBatchSizeConstraint2D.measure_length
\* (dataloader.py:543-552)
MFB2D_measure_length(buckets, ted, ex) ==
    LET en == bucketing_2d_enabled(buckets)
    IN  IF en.st = "raise" THEN en
        ELSE IF IsTrue(en) THEN Raise(NotYetSupported)
        ELSE IF hasattr_num_tokens(ex) THEN Ok(Scalar(ex.num_tokens))
        ELSE IF isinstance(ex, {Cut})
        THEN IF IsNone(ted) THEN Raise(NoTokenEquivalentDuration)
             ELSE Ok(Scalar(Div(ex.duration, ted)))
        ELSE Raise(UnsupportedType)

\* self.measure_length, by the class of self
measure_length(k, buckets, ted, ex) ==
    IF k = MSC THEN MSC_measure_length(ted, ex)
    ELSE IF k = MFB2D THEN MFB2D_measure_length(buckets, ted, ex)
    ELSE FB2D_measure_length(buckets, ex)

(***************************************************************************)
(* lhotse's FixedBucketBatchSizeConstraint.select_bucket, the plain 1D     *)
(* policy reached through super() at dataloader.py:514: the index i with   *)
(* buckets[i-1] <= length < buckets[i], found by binary search.            *)
(***************************************************************************)
FBBSC_select_bucket(k, self_buckets, ted, buckets, ex, example_len) ==
    LET len == IF example_len = PyNone
               THEN measure_length(k, self_buckets, ted, ex)
               ELSE Ok(example_len)
    IN  IF len.st = "raise" THEN len ELSE bisect_right(buckets, len.val)

(***************************************************************************)
(* select_bucket, 2D path (dataloader.py:515-536)                          *)
(***************************************************************************)
\* bin_dim0, bin_dim1 = self.max_seq_len_buckets[bucket_idx]  (lines 525, 535)
unpack_bin(self_buckets, bucket_idx) ==
    IF bucket_idx >= Len(self_buckets) THEN Raise(IndexError)
    ELSE IF ~self_buckets[bucket_idx + 1].seq THEN Raise(TypeError)
    ELSE IF Len(self_buckets[bucket_idx + 1].v) # 2 THEN Raise(ValueError)
    ELSE Ok(self_buckets[bucket_idx + 1])

\* mutant: only case (a) of the condition; an example above the next
\* bucket's second dimension is not pushed further
advance_between_only(self_buckets, example_len, bucket_idx) ==
    LET next_idx == bucket_idx + 1
        bin_dim0 == self_buckets[bucket_idx + 1].v[1]
        bin_dim1 == self_buckets[bucket_idx + 1].v[2]
        bin == self_buckets[next_idx + 1].v
    IN  /\ next_idx < Len(self_buckets)
        /\ bin[1] = bin_dim0
        /\ Lt(bin_dim1, example_len.v[2]) /\ Le(example_len.v[2], bin[2])

\* mutant: the next bucket's first dimension is not compared
advance_any_dim0(self_buckets, example_len, bucket_idx) ==
    LET next_idx == bucket_idx + 1
        bin_dim1 == self_buckets[bucket_idx + 1].v[2]
        bin == self_buckets[next_idx + 1].v
    IN  /\ next_idx < Len(self_buckets)
        /\ \/ Lt(bin_dim1, example_len.v[2]) /\ Le(example_len.v[2], bin[2])
           \/ Lt(bin[2], example_len.v[2])

\* the condition of the while loop (lines 528-532), for a current bin that
\* unpacked to (bin_dim0, bin_dim1)
advance(self_buckets, example_len, bucket_idx) ==
    LET next_idx == bucket_idx + 1
        bin_dim0 == self_buckets[bucket_idx + 1].v[1]
        bin_dim1 == self_buckets[bucket_idx + 1].v[2]
        bin == self_buckets[next_idx + 1].v
    IN  /\ next_idx < Len(self_buckets)
        /\ bin[1] = bin_dim0
        /\ \/ Lt(bin_dim1, example_len.v[2]) /\ Le(example_len.v[2], bin[2])
           \/ Lt(bin[2], example_len.v[2])

RECURSIVE refine(_, _, _, _)
refine(self_buckets, example_len, bucket_idx, n) ==
    LET cur == unpack_bin(self_buckets, bucket_idx)
    IN  IF cur.st = "raise" THEN cur
        ELSE IF advance(self_buckets, example_len, bucket_idx)
        THEN refine(self_buckets, example_len, bucket_idx + 1, n + 1)
        ELSE [Ok(Index(bucket_idx)) EXCEPT !.steps = n]

\* mutant: the early return for 1D tables (lines 513-514) is missing
FB2D_select_bucket_no_1d(k, self_buckets, ted, buckets, ex, example_len) ==
    LET len == IF example_len = PyNone
               THEN measure_length(k, self_buckets, ted, ex)
               ELSE Ok(example_len)
        bucket_idx == bisect_right(buckets, len.val)
    IN  IF len.st = "raise" THEN len
        ELSE IF bucket_idx.st = "raise" THEN bucket_idx
        ELSE refine(self_buckets, len.val, bucket_idx.val.v[1].n, 0)

FB2D_select_bucket(k, self_buckets, ted, buckets, ex, example_len) ==
    LET en == bucketing_2d_enabled(self_buckets)
        len == IF example_len = PyNone
               THEN measure_length(k, self_buckets, ted, ex)
               ELSE Ok(example_len)
        bucket_idx == bisect_right(buckets, len.val)
    IN  IF en.st = "raise" THEN en
        ELSE IF IsFalse(en)
        THEN FBBSC_select_bucket(k, self_buckets, ted, buckets, ex, example_len)
        ELSE IF len.st = "raise" THEN len
        ELSE IF bucket_idx.st = "raise" THEN bucket_idx
        ELSE refine(self_buckets, len.val, bucket_idx.val.v[1].n, 0)

(***************************************************************************)
(* The per-example batch budget the upstream sampler reads from a          *)
(* fixed-bucket policy: batch_sizes[select_bucket(measure_length(example))]*)
(***************************************************************************)
batch_budget(k, self_buckets, sizes, ted, ex) ==
    LET idx == FB2D_select_bucket(k, self_buckets, ted, self_buckets, ex, PyNone)
    IN  IF idx.st = "raise" THEN idx
        ELSE IF idx.val.v[1].n >= Len(sizes) THEN Raise(IndexError)
        ELSE Ok(Index(sizes[idx.val.v[1].n + 1]))

(***************************************************************************)
(* determine_bucket_duration_bins (dataloader.py:399-424)                  *)
(***************************************************************************)
NoList == [some |-> FALSE, list |-> <<>>]
SomeList(a) == [some |-> TRUE, list |-> a]

\* isinstance(item, Sequence), tuple(item)
IsList(item) == "list" \in DOMAIN item
tuple(item) == Tuple(item.list)

\* np.linspace(begin, end, num)[1:-1].tolist(), for num >= 1: of the num
\* evenly spaced points from begin to end, those between the two ends
linspace_inner(begin, end, num) ==
    [i \in 1..(num - 2) |->
        Scalar(Add(begin, Div(Mul(Num(i), Sub(end, begin)), Num(num - 1))))]

\* mutant: begin is min_duration whenever it is set, positive or not
determine_bucket_duration_bins_begin(c) ==
    IF c.bucket_duration_bins.some
    THEN LET ans == c.bucket_duration_bins.list
         IN  IF Len(ans) = 0 THEN Raise(IndexError)
             ELSE IF IsList(ans[1])
             THEN IF \E i \in 1..Len(ans) : ~IsList(ans[i]) THEN Raise(TypeError)
                  ELSE Ok(SomeList([i \in 1..Len(ans) |-> tuple(ans[i])]))
             ELSE Ok(SomeList(ans))
    ELSE IF c.use_multimodal_sampling THEN Ok(NoList)
    ELSE IF ~IsNone(c.max_duration) /\ Lt(c.max_duration, Inf)
    THEN LET begin == IF ~IsNone(c.min_duration) THEN c.min_duration ELSE Num(0)
             end == c.max_duration
         IN  Ok(SomeList(linspace_inner(begin, end, c.num_buckets + 1)))
    ELSE Ok(NoList)

determine_bucket_duration_bins(c) ==
    IF c.bucket_duration_bins.some
    THEN LET ans == c.bucket_duration_bins.list
         IN  IF Len(ans) = 0 THEN Raise(IndexError)
             ELSE IF IsList(ans[1])
             THEN IF \E i \in 1..Len(ans) : ~IsList(ans[i]) THEN Raise(TypeError)
                  ELSE Ok(SomeList([i \in 1..Len(ans) |-> tuple(ans[i])]))
             ELSE Ok(SomeList(ans))
    ELSE IF c.use_multimodal_sampling THEN Ok(NoList)
    ELSE IF ~IsNone(c.max_duration) /\ Lt(c.max_duration, Inf)
    THEN LET begin == IF ~IsNone(c.min_duration) /\ Lt(Num(0), c.min_duration)
                      THEN c.min_duration ELSE Num(0)
             end == c.max_duration
         IN  Ok(SomeList(linspace_inner(begin, end, c.num_buckets + 1)))
    ELSE Ok(NoList)

(***************************************************************************)
(* The constraint get_lhotse_dataloader_from_config constructs             *)
(* (dataloader.py:264-296).                                                *)
(***************************************************************************)
Unresolved == "unresolved"
TimeConstraint == "TimeConstraint"

NoInternal == TokenConstraint(None, None, None)

\* the attributes of a constraint object; those a class does not have are
\* None / empty
Constraint(k, ted, bs, bt, qf, tc, buckets, sizes, bins, r) ==
    [kind |-> k, token_equivalent_duration |-> ted, batch_size |-> bs,
     batch_tokens |-> bt, quadratic_factor |-> qf, internal |-> tc,
     max_seq_len_buckets |-> buckets, batch_sizes |-> sizes,
     bins |-> bins, ret |-> r]

NoConstraint(bins, r) ==
    Constraint(Unresolved, None, None, None, None, NoInternal, <<>>, <<>>,
               bins, r)

\* mutant: the multimodal branch constructs the policy without the assertion
resolve_constraint_unchecked(c) ==
    LET b == determine_bucket_duration_bins(c)
        bins == b.val
    IN  IF b.st = "raise" THEN NoConstraint(NoList, b)
        ELSE IF c.use_multimodal_sampling
        THEN IF c.bucket_batch_size.some
             THEN Constraint(MFB2D, c.token_equivalent_duration, None,
                             None, None, NoInternal, bins.list,
                             c.bucket_batch_size.list, bins, Ok(PyNone))
             ELSE Constraint(MSC, c.token_equivalent_duration, c.batch_size,
                             c.batch_tokens, c.quadratic_factor,
                             MSC_post_init(c.batch_size, c.batch_tokens,
                                           c.quadratic_factor),
                             <<>>, <<>>, bins, Ok(PyNone))
        ELSE IF c.bucket_batch_size.some
        THEN IF ~bins.some
             THEN NoConstraint(bins, Raise(CannotUseBucketBatchSize))
             ELSE Constraint(FB2D, None, None, None, None, NoInternal,
                             bins.list, c.bucket_batch_size.list, bins,
                             Ok(PyNone))
        ELSE Constraint(TimeConstraint, None, None, None, None, NoInternal,
                        <<>>, <<>>, bins, Ok(PyNone))

resolve_constraint(c) ==
    LET b == determine_bucket_duration_bins(c)
        bins == b.val
    IN  IF b.st = "raise" THEN NoConstraint(NoList, b)
        ELSE IF c.use_multimodal_sampling
        THEN IF c.bucket_batch_size.some
             THEN IF ~bins.some
                  THEN NoConstraint(bins, Raise(CannotUseBucketBatchSize))
                  ELSE Constraint(MFB2D, c.token_equivalent_duration, None,
                                  None, None, NoInternal, bins.list,
                                  c.bucket_batch_size.list, bins, Ok(PyNone))
             ELSE Constraint(MSC, c.token_equivalent_duration, c.batch_size,
                             c.batch_tokens, c.quadratic_factor,
                             MSC_post_init(c.batch_size, c.batch_tokens,
                                           c.quadratic_factor),
                             <<>>, <<>>, bins, Ok(PyNone))
        ELSE IF c.bucket_batch_size.some
        THEN IF ~bins.some
             THEN NoConstraint(bins, Raise(CannotUseBucketBatchSize))
             ELSE Constraint(FB2D, None, None, None, None, NoInternal,
                             bins.list, c.bucket_batch_size.list, bins,
                             Ok(PyNone))
        ELSE Constraint(TimeConstraint, None, None, None, None, NoInternal,
                        <<>>, <<>>, bins, Ok(PyNone))

(***************************************************************************)
(* The tables of a fixed-bucket policy after a call on it: no method of    *)
(* FixedBucketBatchSizeConstraint2D or of its multimodal subclass          *)
(* (dataloader.py:500-552) assigns to self.max_seq_len_buckets or          *)
(* self.batch_sizes or changes them in place.                              *)
(***************************************************************************)
\* mutant: the call consumes the last boundary of the table
tables_after_call_popped(buckets, sizes) ==
    [max_seq_len_buckets |->
         IF buckets = <<>> THEN buckets ELSE SubSeq(buckets, 1, Len(buckets) - 1),
     batch_sizes |-> sizes]

tables_after_call(buckets, sizes) ==
    [max_seq_len_buckets |-> buckets, batch_sizes |-> sizes]

(***************************************************************************)
(* The accumulators of lhotse's FixedBucketBatchSizeConstraint, which the  *)
(* two fixed-bucket policies inherit: the bucket of the batch in progress  *)
(* and its example count.  add measures the example with                *)
(* self.measure_length and places it with self.select_bucket; the batch    *)
(* is full when the count is above the bucket's batch size.                *)
(***************************************************************************)
FBState(b, n) == [current_bucket |-> b, num_cuts |-> n]
NoFB == FBState(PyNone, 0)

FBBSC_add(k, buckets, ted, st, ex) ==
    LET len == measure_length(k, buckets, ted, ex)
        idx == FB2D_select_bucket(k, buckets, ted, buckets, ex, len.val)
    IN  IF len.st = "raise" THEN [state |-> st, ret |-> len]
        ELSE IF idx.st = "raise" THEN [state |-> st, ret |-> idx]
        ELSE [state |-> FBState(idx.val, st.num_cuts + 1), ret |-> Ok(PyNone)]

\* the count compared with the budget of the current bucket
FBBSC_full(sizes, st, strictly) ==
    IF st.current_bucket = PyNone THEN Ok(Bool(FALSE))
    ELSE IF st.current_bucket.v[1].n >= Len(sizes) THEN Raise(IndexError)
    ELSE LET budget == sizes[st.current_bucket.v[1].n + 1]
         IN  Ok(Bool(IF strictly THEN st.num_cuts > budget
                     ELSE st.num_cuts >= budget))

FBBSC_exceeded(sizes, st) == FBBSC_full(sizes, st, TRUE)
FBBSC_close_to_exceeding(sizes, st) == FBBSC_full(sizes, st, FALSE)
FBBSC_reset(st) == NoFB

(***************************************************************************)
(* Two data-loading workers, each with a MultimodalSamplingConstraint of   *)
(* its own.  ref[w] names the object worker w's self._internal is bound    *)
(* to, obj holds the objects, last the worker that made the last call.     *)
(* __post_init__ (dataloader.py:468-475) binds a new TokenConstraint to    *)
(* the instance.                                                           *)
(***************************************************************************)
NoWorkers == [ref |-> <<>>, obj |-> <<>>, last |-> 0]

\* mutant: _internal stays an attribute of the class, shared by the
\* instances
construct_workers_shared(bs, bt, qf) ==
    [ref |-> <<1, 1>>,
     obj |-> <<MSC_post_init(bs, bt, qf), MSC_post_init(bs, bt, qf)>>,
     last |-> 0]

construct_workers(bs, bt, qf) ==
    [ref |-> <<1, 2>>,
     obj |-> <<MSC_post_init(bs, bt, qf), MSC_post_init(bs, bt, qf)>>,
     last |-> 0]

(***************************************************************************)
(* tokenize (dataloader.py:562-574).  An example here carries what         *)
(* tokenize reads and writes: a Cut its supervisions, a TextExample its    *)
(* own text, language and tokens, a TextPairExample a source and a target. *)
(* A text is a sequence of character codes, or None; tokens are a numpy    *)
(* array of token ids, or None.                                            *)
(***************************************************************************)
NoText == [some |-> FALSE, chars |-> <<>>]
Text(c) == [some |-> TRUE, chars |-> c]

NoArray == [array |-> FALSE, items |-> <<>>]
\* np.asarray of a list of token ids
asarray(ids) == [array |-> TRUE, items |-> ids]

Part(t, l, tk) == [text |-> t, language |-> l, tokens |-> tk]
NoPart == Part(NoText, "", NoArray)

TokObj(ty, sups, own, src, tgt) ==
    [type |-> ty, supervisions |-> sups, own |-> own, source |-> src,
     target |-> tgt]
NoTokObj == TokObj("", <<>>, NoPart, NoPart, NoPart)

\* the tokenizer argument, a function (text, language) -> token ids: one
\* that shifts every character code by a language offset, and one that puts
\* a language token before the character codes
Tokenizers == {"shift", "prefix"}
LangId(language) == IF language = "en" THEN 10 ELSE 20
tokenizer(tk, text, language) ==
    IF tk = "shift"
    THEN [i \in 1..Len(text.chars) |-> LangId(language) + text.chars[i]]
    ELSE <<LangId(language)>> \o text.chars

\* the example after the call (it is changed in place and returned), or the
\* error raised
tokenize(ex, tk) ==
    IF ex.type = Cut
    THEN [st |-> "ok", err |-> "",
          example |->
              [ex EXCEPT !.supervisions =
                  [i \in 1..Len(ex.supervisions) |->
                      LET s == ex.supervisions[i]
                      IN  IF s.text.some
                          THEN [s EXCEPT !.tokens =
                                   asarray(tokenizer(tk, s.text, s.language))]
                          ELSE s]]]
    ELSE IF ex.type = TextExample
    THEN [st |-> "ok", err |-> "",
          example |->
              [ex EXCEPT !.own.tokens =
                  asarray(tokenizer(tk, ex.own.text, ex.own.language))]]
    ELSE IF ex.type = TextPairExample
    THEN [st |-> "ok", err |-> "",
          example |->
              [ex EXCEPT
                  !.source.tokens =
                      asarray(tokenizer(tk, ex.source.text, ex.source.language)),
                  !.target.tokens =
                      asarray(tokenizer(tk, ex.source.text, ex.target.language))]]
    ELSE [st |-> "raise", err |-> UnsupportedTypeOfExample, example |-> ex]

\* no example taken yet
NoTokenized ==
    [example |-> NoTokObj, op |-> "none", tokenizer |-> "", st |-> "",
     err |-> ""]

(***************************************************************************)
(* FineTuningDataModule (fine_tuning.py:33-222).  packed_sequence_specs is *)
(* None or an object with a packed_sequence_size and a packed_data_path    *)
(* (None, written "", or a path); a path is a file name and, for the       *)
(* default packed file training_{size}.npy, the size in the name.          *)
(***************************************************************************)
NoSpecs == [some |-> FALSE, packed_sequence_size |-> -1, packed_data_path |-> ""]
PackedSequenceSpecs(size, path) ==
    [some |-> TRUE, packed_sequence_size |-> size, packed_data_path |-> path]

Path(name, size) == [name |-> name, size |-> size]
NoPath == Path("", 0)

\* self.packed_sequence_size (line 91)
packed_sequence_size_of(specs) ==
    IF ~specs.some THEN -1 ELSE specs.packed_sequence_size

\* mutant: either condition alone raises
validate_batch_size_for_packed_sequence_either(self) ==
    IF self.packed_sequence_size > 0 \/ self.micro_batch_size > 1
    THEN [st |-> "raise", err |-> MicroBatchSizeShouldBe1, path |-> NoPath]
    ELSE [st |-> "ok", err |-> "", path |-> NoPath]

\* lines 95-105
validate_batch_size_for_packed_sequence(self) ==
    IF self.packed_sequence_size > 0 /\ self.micro_batch_size > 1
    THEN [st |-> "raise", err |-> MicroBatchSizeShouldBe1, path |-> NoPath]
    ELSE [st |-> "ok", err |-> "", path |-> NoPath]

\* lines 186-188
train_path(self) == Path("training.jsonl", 0)

\* lines 190-200
train_path_packed(self) ==
    IF self.packed_sequence_size > 0
    THEN IF self.packed_sequence_specs.packed_data_path # ""
         THEN [st |-> "ok", err |-> "",
               path |-> Path(self.packed_sequence_specs.packed_data_path, 0)]
         ELSE [st |-> "ok", err |-> "",
               path |-> Path("packed/training_{}.npy",
                             self.packed_sequence_size)]
    ELSE [st |-> "raise", err |-> TrainPathPackedInvalid, path |-> NoPath]

\* lines 133-141: the path the training dataset is created from
train_dataloader(self) ==
    IF self.packed_sequence_size <= 0
    THEN [st |-> "ok", err |-> "", path |-> train_path(self)]
    ELSE train_path_packed(self)

\* lines 58-93: the attributes assigned up to the validation, and its outcome
FineTuningDataModule_init(specs, mbs, gbs) ==
    LET self == [packed_sequence_specs |-> specs,
                 packed_sequence_size |-> packed_sequence_size_of(specs),
                 micro_batch_size |-> mbs,
                 global_batch_size |-> gbs]
        v == validate_batch_size_for_packed_sequence(self)
    IN  [self |-> self, constructed |-> v.st, op |-> "__init__",
         st |-> v.st, err |-> v.err, path |-> NoPath]

\* no data module constructed yet
NoDataModule ==
    [self |-> [packed_sequence_specs |-> NoSpecs, packed_sequence_size |-> -1,
               micro_batch_size |-> 4, global_batch_size |-> 8],
     constructed |-> "no", op |-> "none", st |-> "", err |-> "",
     path |-> NoPath]

(***************************************************************************)
(* Inputs: the configurations a constraint is constructed from, and the    *)
(* arguments of the calls.                                                 *)
(***************************************************************************)
SeqsUpTo(S, n) == UNION {[1..m -> S] : m \in 0..n}

IsSorted(a) ==
    \A i \in 1..(Len(a) - 1) : ~PyLt(a[i + 1], a[i])

Boundaries1D == {Scalar(Num(b)) : b \in 1..MaxTok}
Boundaries2D == {Pair(Num(d), Num(t)) : d \in 1..2, t \in 1..MaxTok}

\* the 2D table of the comment at dataloader.py:520
DocBuckets2D ==
    <<Pair(Num(1), Num(1)), Pair(Num(1), Num(2)),
      Pair(Num(2), Num(2)), Pair(Num(2), Num(4))>>
DocLen2D == Pair(R(3, 2), Num(3))

\* the end-to-end scenario: boundaries [10.0, 20.0, 30.0], sizes [8, 4, 2]
DocBuckets1D == <<Scalar(Num(10)), Scalar(Num(20)), Scalar(Num(30))>>
DocSizes1D == <<8, 4, 2>>
DocCuts == {MkExample(Cut, Num(d), None, None, <<>>) : d \in {5, 15, 35}}

\* tables whose entries are sequences, but not all of them pairs
OddBuckets ==
    {<<Tuple(<<Num(1), Num(2), Num(3)>>)>>,
     <<Pair(Num(1), Num(1)), Tuple(<<Num(1), Num(2), Num(3)>>)>>,
     <<Tuple(<<Num(1), Num(1), Num(1)>>), Pair(Num(1), Num(2))>>}

Tables1D == {a \in SeqsUpTo(Boundaries1D, MaxBuckets) : IsSorted(a)} \cup {DocBuckets1D}
Tables2D ==
    {a \in SeqsUpTo(Boundaries2D, MaxBuckets) : a # <<>> /\ IsSorted(a)}
    \cup {DocBuckets2D}
Tables == Tables1D \cup Tables2D \cup OddBuckets

SizesFor(a) ==
    IF a = DocBuckets1D THEN {DocSizes1D}
    ELSE {[i \in 1..Len(a) |-> Len(a) + 1 - i]}

Lens1D == {Scalar(x) : x \in Durations \cup {Num(t) : t \in 0..(MaxTok + 1)}}
Lens2D == {Pair(x, Num(t)) : x \in Durations, t \in 0..(MaxTok + 1)}
Lens == Lens1D \cup Lens2D

NoExample == MkExample(Other, None, None, None, <<>>)
NoCall == [op |-> "none", ex |-> NoExample, len |-> PyNone]

(***************************************************************************)
(* The configurations of the model.  Default is LhotseDataLoadingConfig's  *)
(* defaults (dataloader.py:68-105).                                        *)
(***************************************************************************)
Default ==
    [use_multimodal_sampling |-> FALSE,
     bucket_duration_bins |-> NoList,
     bucket_batch_size |-> NoList,
     token_equivalent_duration |-> None,
     batch_size |-> None,
     batch_tokens |-> None,
     quadratic_factor |-> None,
     min_duration |-> Num(-1),
     max_duration |-> Inf,
     num_buckets |-> 30,
     min_tps |-> Num(-1),
     max_tps |-> Inf]

\* a table as the configuration file holds it: 2D entries are lists
AsConfigured(a) ==
    [i \in 1..Len(a) |-> IF a[i].seq THEN [list |-> a[i].v] ELSE a[i]]

\* multimodal sampling without per-bucket batch sizes
ConfigsMSC ==
    {[Default EXCEPT !.use_multimodal_sampling = TRUE,
                     !.token_equivalent_duration = ted,
                     !.batch_size = bs,
                     !.batch_tokens = bt,
                     !.quadratic_factor = qf] :
        ted \in {None, R(1, 2), Num(2)}, bs \in {None, Num(2)},
        bt \in {None, Num(4)}, qf \in {None, Num(2), Num(4)}}

\* per-bucket batch sizes with a configured boundary table
ConfigsFB ==
    UNION {{[Default EXCEPT !.use_multimodal_sampling = m[1],
                            !.token_equivalent_duration = m[2],
                            !.bucket_duration_bins = SomeList(AsConfigured(a)),
                            !.bucket_batch_size = SomeList(sizes)] :
               m \in {<<FALSE, None>>, <<TRUE, None>>, <<TRUE, R(1, 2)>>},
               sizes \in SizesFor(a)} :
           a \in Tables \ {<<>>}}

\* no boundary table configured: with or without per-bucket batch sizes,
\* multimodal or not, over the durations and bucket counts of AutoBins
AutoBins ==
    {<<Num(-1), Inf, 30>>, <<Num(-1), None, 2>>,
     <<Num(-1), Num(4), 1>>, <<Num(-1), Num(4), 2>>, <<Num(-1), Num(4), 4>>,
     <<None, Num(3), 3>>, <<Num(0), Num(3), 2>>,
     <<Num(1), Num(3), 1>>, <<Num(1), Num(3), 2>>, <<Num(1), Num(3), 4>>,
     <<Num(-1), Num(40), 4>>}

TpsRanges == {<<Num(-1), Inf>>, <<Num(0), Inf>>, <<Num(0), Num(2)>>,
              <<Num(1), Inf>>, <<Num(1), Num(2)>>}

ConfigsAuto ==
    {[Default EXCEPT !.use_multimodal_sampling = mm,
                     !.bucket_batch_size = bbs,
                     !.min_duration = d[1],
                     !.max_duration = d[2],
                     !.num_buckets = d[3]] :
        mm \in BOOLEAN, bbs \in {NoList, SomeList(<<2, 1>>), SomeList(DocSizes1D)},
        d \in AutoBins}

\* the tokens-per-second filter configured, on the time-based default
ConfigsTps ==
    {[Default EXCEPT !.min_tps = t[1], !.max_tps = t[2]] : t \in TpsRanges}

Configs ==
    ConfigsMSC \cup ConfigsFB \cup ConfigsAuto \cup ConfigsTps

Init ==
    /\ config \in Configs
    /\ bucket_duration_bins = NoList
    /\ kind = Unresolved
    /\ token_equivalent_duration = None
    /\ batch_size = None
    /\ batch_tokens = None
    /\ quadratic_factor = None
    /\ internal = NoInternal
    /\ max_seq_len_buckets = <<>>
    /\ batch_sizes = <<>>
    /\ example = NoExample
    /\ call = NoCall
    /\ ret = Ok(PyNone)
    /\ added = <<>>
    /\ fb_state = NoFB
    /\ workers = NoWorkers
    /\ tokenized = NoTokenized
    /\ datamodule = NoDataModule

\* what no call on a constraint assigns
cfg0 == <<config, bucket_duration_bins, kind, token_equivalent_duration,
          batch_size, batch_tokens, quadratic_factor>>
cfg == <<cfg0, max_seq_len_buckets, batch_sizes>>

\* the example of tokenize and the fine-tuning data module, which no call
\* on a constraint touches
aside == <<tokenized, datamodule>>

\* the fixed-bucket accumulators and the workers' constraints, which the
\* calls below on the one constraint do not touch
idle == <<fb_state, workers, aside>>

\* a call on a fixed-bucket policy leaves the policy with these tables
SelfTables ==
    /\ max_seq_len_buckets' =
           tables_after_call(max_seq_len_buckets, batch_sizes).max_seq_len_buckets
    /\ batch_sizes' =
           tables_after_call(max_seq_len_buckets, batch_sizes).batch_sizes

(***************************************************************************)
(* get_lhotse_dataloader_from_config, lines 264-296: the boundary table is *)
(* determined and the constraint is constructed, or the call raises.       *)
(***************************************************************************)
Resolve ==
    LET r == resolve_constraint(config)
    IN  /\ kind = Unresolved
        /\ call = NoCall
        /\ IF r.ret.st = "ok"
           THEN /\ call' = NoCall
                /\ kind' = r.kind
           ELSE /\ call' = [op |-> "get_lhotse_dataloader_from_config",
                            ex |-> NoExample, len |-> PyNone]
                /\ kind' = Unresolved
        /\ ret' = r.ret
        /\ bucket_duration_bins' = r.bins
        /\ token_equivalent_duration' = r.token_equivalent_duration
        /\ batch_size' = r.batch_size
        /\ batch_tokens' = r.batch_tokens
        /\ quadratic_factor' = r.quadratic_factor
        /\ internal' = r.internal
        /\ max_seq_len_buckets' = r.max_seq_len_buckets
        /\ batch_sizes' = r.batch_sizes
        /\ UNCHANGED <<config, example, added>>

GetDataloader == Resolve /\ UNCHANGED idle

(***************************************************************************)
(* The caller (the sampler's loop) holds at most one example at a time.    *)
(* With no call pending it takes a new example for its next call; after a  *)
(* call it either goes on with the same object or lets it go (Next         *)
(* example).                                                               *)
(***************************************************************************)
Constructed == kind \in {MSC, FB2D, MFB2D}

Ready == Constructed /\ call = NoCall

Fresh == IF kind = MSC THEN PlainCuts \cup Texts \cup Others
         ELSE Examples \cup DocCuts

Args == IF Ready THEN Fresh ELSE {example}

\* a precomputed example_len: any length, or the one measure_length returned
LenArgs ==
    IF Ready THEN Lens
    ELSE IF call.op = "measure_length" /\ ret.st = "ok" THEN {ret.val}
    ELSE {}

NextExample ==
    /\ kind # Unresolved
    /\ call # NoCall
    /\ example' = NoExample
    /\ call' = NoCall
    /\ ret' = Ok(PyNone)
    /\ UNCHANGED <<cfg, idle, internal, added>>

(***************************************************************************)
(* The tokens-per-second filter of the pipeline (dataloader.py:221), on an *)
(* example the sampler newly takes.                                        *)
(***************************************************************************)
DoFilter(ex) ==
    /\ kind # Unresolved
    /\ call = NoCall
    /\ ret' = TokenPerSecondFilter_call(
                  TokenPerSecondFilter(config.min_tps, config.max_tps), ex)
    /\ call' = [op |-> "TokenPerSecondFilter", ex |-> ex, len |-> PyNone]
    /\ example' = ex
    /\ UNCHANGED <<cfg, idle, internal, added>>

(***************************************************************************)
(* Calls on a MultimodalSamplingConstraint.                                *)
(***************************************************************************)
\* added keeps the lengths of the batch in ascending order
RECURSIVE Insert(_, _)
Insert(s, x) ==
    IF s = <<>> THEN <<x>>
    ELSE IF Le(x, Head(s)) THEN <<x>> \o s
    ELSE <<Head(s)>> \o Insert(Tail(s), x)

DoAdd(ex) ==
    LET r == MSC_add(token_equivalent_duration, internal, ex)
    IN  /\ kind = MSC
        /\ internal.num_examples < MaxAdds
        /\ example' = r.ex
        /\ internal' = r.tc
        /\ ret' = r.ret
        /\ call' = [op |-> "add", ex |-> ex, len |-> PyNone]
        /\ added' = IF r.ret.st = "ok" THEN Insert(added, r.ex.num_tokens)
                    ELSE added
        /\ UNCHANGED <<cfg, idle>>

DoExceeded ==
    /\ kind = MSC
    /\ ret' = Ok(Bool(MSC_exceeded(internal)))
    /\ call' = [op |-> "exceeded", ex |-> example, len |-> PyNone]
    /\ UNCHANGED <<cfg, idle, internal, example, added>>

DoCloseToExceeding ==
    /\ kind = MSC
    /\ ret' = Ok(Bool(MSC_close_to_exceeding(internal)))
    /\ call' = [op |-> "close_to_exceeding", ex |-> example, len |-> PyNone]
    /\ UNCHANGED <<cfg, idle, internal, example, added>>

DoReset ==
    /\ kind = MSC
    /\ internal' = MSC_reset(internal)
    /\ ret' = Ok(PyNone)
    /\ call' = [op |-> "reset", ex |-> example, len |-> PyNone]
    /\ added' = <<>>
    /\ UNCHANGED <<cfg, idle, example>>

(***************************************************************************)
(* Calls on any of the three constraints.                                  *)
(***************************************************************************)
DoMeasureLength(ex) ==
    /\ Constructed
    /\ ret' = measure_length(kind, max_seq_len_buckets,
                             token_equivalent_duration, ex)
    /\ call' = [op |-> "measure_length", ex |-> ex, len |-> PyNone]
    /\ example' = ex
    /\ SelfTables
    /\ UNCHANGED <<cfg0, idle, internal, added>>

(***************************************************************************)
(* Calls on a fixed-bucket policy.  The sampler passes the policy's own    *)
(* table as buckets.                                                       *)
(***************************************************************************)
DoEnabled2D ==
    /\ kind \in {FB2D, MFB2D}
    /\ ret' = bucketing_2d_enabled(max_seq_len_buckets)
    /\ call' = [op |-> "bucketing_2d_enabled", ex |-> example, len |-> PyNone]
    /\ SelfTables
    /\ UNCHANGED <<cfg0, idle, internal, example, added>>

DoSelectBucket(ex, example_len) ==
    /\ kind \in {FB2D, MFB2D}
    /\ ret' = FB2D_select_bucket(kind, max_seq_len_buckets,
                                 token_equivalent_duration,
                                 max_seq_len_buckets, ex, example_len)
    /\ call' = [op |-> "select_bucket", ex |-> ex, len |-> example_len]
    /\ example' = ex
    /\ SelfTables
    /\ UNCHANGED <<cfg0, idle, internal, added>>

DoBatchBudget(ex) ==
    /\ kind \in {FB2D, MFB2D}
    /\ ret' = batch_budget(kind, max_seq_len_buckets, batch_sizes,
                           token_equivalent_duration, ex)
    /\ call' = [op |-> "batch_budget", ex |-> ex, len |-> PyNone]
    /\ example' = ex
    /\ SelfTables
    /\ UNCHANGED <<cfg0, idle, internal, added>>

Next ==
    \/ GetDataloader
    \/ NextExample
    \/ \E ex \in Fresh : DoFilter(ex)
    \/ \E ex \in Args : DoAdd(ex)
    \/ DoExceeded
    \/ DoCloseToExceeding
    \/ DoReset
    \/ \E ex \in Args : DoMeasureLength(ex)
    \/ DoEnabled2D
    \/ \E ex \in Args : DoSelectBucket(ex, PyNone)
    \/ \E len \in LenArgs : DoSelectBucket(example, len)
    \/ \E ex \in Args : DoBatchBudget(ex)

Spec == Init /\ [][Next]_vars

(***************************************************************************)
(* A fixed-bucket policy under the sampler's loop, accumulating batches:   *)
(* the inherited add, exceeded, close_to_exceeding and reset next to       *)
(* measure_length and select_bucket, on the documented tables.             *)
(***************************************************************************)
DoFBAdd(ex) ==
    LET r == FBBSC_add(kind, max_seq_len_buckets, token_equivalent_duration,
                       fb_state, ex)
    IN  /\ kind \in {FB2D, MFB2D}
        /\ fb_state.num_cuts < MaxAdds
        /\ fb_state' = r.state
        /\ ret' = r.ret
        /\ call' = [op |-> "add", ex |-> ex, len |-> PyNone]
        /\ example' = ex
        /\ SelfTables
        /\ UNCHANGED <<cfg0, internal, added, workers, aside>>

DoFBExceeded ==
    /\ kind \in {FB2D, MFB2D}
    /\ ret' = FBBSC_exceeded(batch_sizes, fb_state)
    /\ call' = [op |-> "exceeded", ex |-> example, len |-> PyNone]
    /\ SelfTables
    /\ UNCHANGED <<cfg0, internal, example, added, idle>>

DoFBCloseToExceeding ==
    /\ kind \in {FB2D, MFB2D}
    /\ ret' = FBBSC_close_to_exceeding(batch_sizes, fb_state)
    /\ call' = [op |-> "close_to_exceeding", ex |-> example, len |-> PyNone]
    /\ SelfTables
    /\ UNCHANGED <<cfg0, internal, example, added, idle>>

DoFBReset ==
    /\ kind \in {FB2D, MFB2D}
    /\ fb_state' = FBBSC_reset(fb_state)
    /\ ret' = Ok(PyNone)
    /\ call' = [op |-> "reset", ex |-> example, len |-> PyNone]
    /\ SelfTables
    /\ UNCHANGED <<cfg0, internal, example, added, workers, aside>>

ConfigsBuckets ==
    {[Default EXCEPT !.use_multimodal_sampling = m[1],
                     !.token_equivalent_duration = m[2],
                     !.bucket_duration_bins = SomeList(AsConfigured(t[1])),
                     !.bucket_batch_size = SomeList(t[2])] :
        m \in {<<FALSE, None>>, <<TRUE, R(1, 2)>>},
        t \in {<<DocBuckets1D, DocSizes1D>>, <<DocBuckets2D, <<4, 3, 2, 1>>>>}}

InitBuckets == Init /\ config \in ConfigsBuckets

NextBuckets ==
    \/ GetDataloader
    \/ NextExample
    \/ \E ex \in Args : DoMeasureLength(ex)
    \/ \E ex \in Args : DoSelectBucket(ex, PyNone)
    \/ \E len \in LenArgs : DoSelectBucket(example, len)
    \/ \E ex \in Args : DoFBAdd(ex)
    \/ DoFBExceeded
    \/ DoFBCloseToExceeding
    \/ DoFBReset

SpecBuckets == InitBuckets /\ [][NextBuckets]_vars

(***************************************************************************)
(* Two data-loading workers.  Each constructs its constraint from the same *)
(* configuration and runs its own loop of add / exceeded /                 *)
(* close_to_exceeding / reset; the loops interleave in any order.          *)
(***************************************************************************)
StartWorkers ==
    /\ Resolve
    /\ kind' = MSC
    /\ workers' = construct_workers(config.batch_size, config.batch_tokens,
                                    config.quadratic_factor)
    /\ UNCHANGED <<fb_state, aside>>

Workers == {1, 2}
Started == workers.ref # <<>>

\* self._internal of worker w's constraint
InternalOf(ws, w) == ws.obj[ws.ref[w]]

WorkerExamples ==
    {MkExample(TextExample, None, Num(1), None, <<>>),
     MkExample(Cut, Num(1), None, None, <<>>)}

WAdd(w, ex) ==
    LET r == MSC_add(token_equivalent_duration, InternalOf(workers, w), ex)
    IN  /\ Started
        /\ InternalOf(workers, w).num_examples < MaxAdds
        /\ workers' = [workers EXCEPT !.obj[workers.ref[w]] = r.tc, !.last = w]
        /\ ret' = r.ret
        /\ call' = [op |-> "add", ex |-> ex, len |-> PyNone]
        /\ example' = r.ex
        /\ UNCHANGED <<cfg, internal, added, fb_state, aside>>

WExceeded(w) ==
    /\ Started
    /\ workers' = [workers EXCEPT !.last = w]
    /\ ret' = Ok(Bool(MSC_exceeded(InternalOf(workers, w))))
    /\ call' = [op |-> "exceeded", ex |-> example, len |-> PyNone]
    /\ UNCHANGED <<cfg, internal, example, added, fb_state, aside>>

WCloseToExceeding(w) ==
    /\ Started
    /\ workers' = [workers EXCEPT !.last = w]
    /\ ret' = Ok(Bool(MSC_close_to_exceeding(InternalOf(workers, w))))
    /\ call' = [op |-> "close_to_exceeding", ex |-> example, len |-> PyNone]
    /\ UNCHANGED <<cfg, internal, example, added, fb_state, aside>>

WReset(w) ==
    /\ Started
    /\ workers' = [workers EXCEPT
                      !.obj[workers.ref[w]] = MSC_reset(InternalOf(workers, w)),
                      !.last = w]
    /\ ret' = Ok(PyNone)
    /\ call' = [op |-> "reset", ex |-> example, len |-> PyNone]
    /\ UNCHANGED <<cfg, internal, example, added, fb_state, aside>>

ConfigsWorkers ==
    {c \in ConfigsMSC :
        /\ c.token_equivalent_duration = R(1, 2)
        /\ c.batch_size = Num(2)
        /\ c.batch_tokens = Num(4)}

InitWorkers == Init /\ config \in ConfigsWorkers

NextWorkers ==
    \/ StartWorkers
    \/ \E w \in Workers, ex \in WorkerExamples : WAdd(w, ex)
    \/ \E w \in Workers : WExceeded(w)
    \/ \E w \in Workers : WCloseToExceeding(w)
    \/ \E w \in Workers : WReset(w)

SpecWorkers == InitWorkers /\ [][NextWorkers]_vars

(***************************************************************************)
(* Tokenization on its own: an example is taken from the data and tokenize *)
(* is called on it, with any tokenizer, any number of times.               *)
(***************************************************************************)
Langs == {"en", "de"}
TokTexts == {Text(<<1>>), Text(<<1, 2>>)}

\* a supervision with or without text; one without may hold earlier tokens
SupervisionsIn ==
    {Part(t, l, NoArray) : t \in TokTexts, l \in Langs}
    \cup {Part(NoText, l, tk) : l \in Langs, tk \in {NoArray, asarray(<<7>>)}}

TextPartsIn == {Part(t, l, NoArray) : t \in TokTexts, l \in Langs}

TokExamples ==
    {TokObj(Cut, sups, NoPart, NoPart, NoPart) :
        sups \in SeqsUpTo(SupervisionsIn, MaxSup)}
    \cup {TokObj(TextExample, <<>>, own, NoPart, NoPart) : own \in TextPartsIn}
    \cup {TokObj(TextPairExample, <<>>, NoPart, src, tgt) :
             src \in TextPartsIn, tgt \in TextPartsIn}
    \cup {TokObj(Other, <<>>, NoPart, NoPart, NoPart)}

\* everything but the example of tokenize
beside == <<cfg, internal, example, call, ret, added, fb_state, workers,
            datamodule>>

TakeExample(ex) ==
    /\ tokenized' = [NoTokenized EXCEPT !.example = ex]
    /\ UNCHANGED beside

DoTokenize(tk) ==
    LET r == tokenize(tokenized.example, tk)
    IN  /\ tokenized.example # NoTokObj
        /\ tokenized' = [example |-> r.example, op |-> "tokenize",
                         tokenizer |-> tk, st |-> r.st, err |-> r.err]
        /\ UNCHANGED beside

InitTokenize == Init /\ config = Default

NextTokenize ==
    \/ \E ex \in TokExamples : TakeExample(ex)
    \/ \E tk \in Tokenizers : DoTokenize(tk)

SpecTokenize == InitTokenize /\ [][NextTokenize]_vars

(***************************************************************************)
(* A FineTuningDataModule on its own: it is constructed, and on the        *)
(* constructed module train_dataloader and train_path_packed are read, in  *)
(* any order and any number of times.                                      *)
(***************************************************************************)
SpecsIn ==
    {NoSpecs}
    \cup {PackedSequenceSpecs(n, p) :
             n \in (-1)..MaxPacked, p \in {"", "custom.npy"}}

\* micro_batch_size: small values and the default
MicroBatchSizes == (0..MaxMicro) \cup {4}

\* everything but the data module
apart == <<cfg, internal, example, call, ret, added, fb_state, workers,
           tokenized>>

DMConstruct(specs, mbs, gbs) ==
    /\ datamodule.constructed = "no"
    /\ datamodule' = FineTuningDataModule_init(specs, mbs, gbs)
    /\ UNCHANGED apart

DMTrainDataloader ==
    LET r == train_dataloader(datamodule.self)
    IN  /\ datamodule.constructed = "ok"
        /\ datamodule' = [datamodule EXCEPT !.op = "train_dataloader",
                                            !.st = r.st, !.err = r.err,
                                            !.path = r.path]
        /\ UNCHANGED apart

DMTrainPathPacked ==
    LET r == train_path_packed(datamodule.self)
    IN  /\ datamodule.constructed = "ok"
        /\ datamodule' = [datamodule EXCEPT !.op = "train_path_packed",
                                            !.st = r.st, !.err = r.err,
                                            !.path = r.path]
        /\ UNCHANGED apart

InitFineTuning == Init /\ config = Default

NextFineTuning ==
    \/ \E specs \in SpecsIn, mbs \in MicroBatchSizes :
           DMConstruct(specs, mbs, 8)
    \/ DMTrainDataloader
    \/ DMTrainPathPacked

SpecFineTuning == InitFineTuning /\ [][NextFineTuning]_vars

(***************************************************************************)
(* Properties.                                                             *)
(***************************************************************************)
IsFixedBucket == kind \in {FB2D, MFB2D}
Is1DTable(a) == a # <<>> /\ \A i \in 1..Len(a) : ~a[i].seq
Is2DTable(a) == a # <<>> /\ \A i \in 1..Len(a) : a[i].seq /\ Len(a[i].v) = 2
IsScalarLen(x) == ~x.seq /\ ~IsNone(x.v[1])
IsPairLen(x) == x.seq /\ Len(x.v) = 2

\* the length the last select_bucket call worked on
CallLen ==
    IF call.len # PyNone THEN Ok(call.len)
    ELSE measure_length(kind, max_seq_len_buckets, token_equivalent_duration,
                        call.ex)

RetIdx == ret.val.v[1].n

\* B[i-1] <= L < B[i] for the 0-based index i of an N-entry table, with
\* B[-1] = -infinity and B[N] = +infinity
InBucket1D(B, L, i) ==
    /\ i = 0 \/ Le(B[i].v[1], L)
    /\ i = Len(B) \/ Lt(L, B[i + 1].v[1])

\* C1: on a sorted table of N scalar boundaries, select_bucket of a scalar
\* length L returns the one index i in 0..N with B[i-1] <= L < B[i]; a
\* length equal to a boundary lands in the bucket above it.
C1_SelectBucket1D ==
    (/\ IsFixedBucket
     /\ call.op = "select_bucket"
     /\ Is1DTable(max_seq_len_buckets)
     /\ CallLen.st = "ok"
     /\ IsScalarLen(CallLen.val))
    => /\ ret.st = "ok"
       /\ RetIdx \in 0..Len(max_seq_len_buckets)
       /\ InBucket1D(max_seq_len_buckets, CallLen.val.v[1], RetIdx)
       /\ \A j \in 0..Len(max_seq_len_buckets) :
              InBucket1D(max_seq_len_buckets, CallLen.val.v[1], j) => j = RetIdx

\* a length equal to a boundary that is not the last one went above it
C1_Witness ==
    /\ kind = FB2D
    /\ call.op = "select_bucket"
    /\ Is1DTable(max_seq_len_buckets)
    /\ call.len # PyNone
    /\ IsScalarLen(call.len)
    /\ ret.st = "ok"
    /\ \E i \in 1..Len(max_seq_len_buckets) :
          /\ max_seq_len_buckets[i].v[1] = call.len.v[1]
          /\ RetIdx >= i
          /\ RetIdx < Len(max_seq_len_buckets)

(***************************************************************************)
(* 2D bucket selection.                                                    *)
(***************************************************************************)
\* the last call was a 2D select_bucket that returned an index
Selected2D ==
    /\ IsFixedBucket
    /\ call.op = "select_bucket"
    /\ Is2DTable(max_seq_len_buckets)
    /\ CallLen.st = "ok"
    /\ IsPairLen(CallLen.val)
    /\ ret.st = "ok"

Dim0(i) == max_seq_len_buckets[i + 1].v[1]
Dim1(i) == max_seq_len_buckets[i + 1].v[2]
LenD == CallLen.val.v[1]
LenT == CallLen.val.v[2]

\* bucket i (0-based) has the first-dimension boundary of bucket j and
\* boundaries >= the example in both dimensions
Holds(i, j) ==
    /\ Dim0(i) = Dim0(j)
    /\ Le(LenD, Dim0(i))
    /\ Le(LenT, Dim1(i))

\* bucket i sorts strictly after the example's length pair
SortsAfter(i) == LexLt(<<LenD, LenT>>, <<Dim0(i), Dim1(i)>>)

Indices == 0..(Len(max_seq_len_buckets) - 1)

\* C2 as stated: the returned j is the lowest index among the buckets that
\* share bucket j's first-dimension boundary and are >= the example in both
\* dimensions, whenever there is such a bucket.
C2_Original ==
    Selected2D =>
        ((\E i \in Indices : Holds(i, RetIdx))
         => /\ Holds(RetIdx, RetIdx)
            /\ \A i \in Indices : Holds(i, RetIdx) => RetIdx <= i)

\* C2 (amended): the returned j is the lowest index among the buckets that
\* sort strictly after the example's length pair, share bucket j's
\* first-dimension boundary and are >= the example in both dimensions,
\* whenever there is such a bucket; an example equal to a boundary pair goes
\* to the bucket above that pair.
C2_LowestAfter ==
    Selected2D =>
        ((\E i \in Indices : SortsAfter(i) /\ Holds(i, RetIdx))
         => /\ SortsAfter(RetIdx)
            /\ Holds(RetIdx, RetIdx)
            /\ \A i \in Indices :
                   SortsAfter(i) /\ Holds(i, RetIdx) => RetIdx <= i)

\* the refinement loop moved the example two buckets up, to one that holds it
C2_Witness ==
    /\ Selected2D
    /\ ret.steps >= 2
    /\ SortsAfter(RetIdx)
    /\ Holds(RetIdx, RetIdx)

\* the bisect-right position of the example in a sorted table: the number of
\* entries that do not sort after it
BisectPos == Cardinality({i \in Indices : ~SortsAfter(i)})

\* the loop condition at bucket i, as documented: a next bucket exists, has
\* the first-dimension boundary of bucket i, and the example's second
\* dimension is above bucket i's and at most the next one's, or above the
\* next one's
MayAdvance(i) ==
    /\ i + 1 < Len(max_seq_len_buckets)
    /\ Dim0(i + 1) = Dim0(i)
    /\ \/ Lt(Dim1(i), LenT) /\ Le(LenT, Dim1(i + 1))
       \/ Lt(Dim1(i + 1), LenT)

\* C3: 2D select_bucket starts at the bisect-right position and advances one
\* bucket at a time exactly while the loop condition holds: the result is
\* never below the bisect position, never leaves the group of buckets with
\* the starting bucket's first-dimension boundary, and for the table
\* [(1,1),(1,2),(2,2),(2,4)] and length (1.5, 3) it is 3, not 2.
C3_Refinement ==
    Selected2D =>
        /\ RetIdx >= BisectPos
        /\ ret.steps = RetIdx - BisectPos
        /\ \A i \in BisectPos..(RetIdx - 1) : MayAdvance(i)
        /\ ~MayAdvance(RetIdx)
        /\ Dim0(RetIdx) = Dim0(BisectPos)
        /\ (max_seq_len_buckets = DocBuckets2D /\ CallLen.val = DocLen2D)
               => (BisectPos = 2 /\ RetIdx = 3)

\* the documented example was selected
C3_Witness ==
    /\ Selected2D
    /\ max_seq_len_buckets = DocBuckets2D
    /\ CallLen.val = DocLen2D
    /\ RetIdx = 3

(***************************************************************************)
(* The sampling constraint's accounting, against the ledger of lengths     *)
(* added since the last reset.                                             *)
(***************************************************************************)
RECURSIVE RawSum(_)
RawSum(ls) == IF ls = <<>> THEN Num(0) ELSE Add(Head(ls), RawSum(Tail(ls)))

\* the sum of L + L*L/q over the ledger (of L when q is None)
RECURSIVE EffSum(_, _)
EffSum(ls, q) ==
    IF ls = <<>> THEN Num(0)
    ELSE LET L == Head(ls)
             cost == IF IsNone(q) THEN L ELSE R(L.n * q.n * L.d + L.n * L.n * q.d, L.d * L.d * q.n)
         IN  Add(cost, EffSum(Tail(ls), q))

BothLimits == kind = MSC /\ ~IsNone(batch_tokens) /\ ~IsNone(batch_size)

\* C4 as stated: exceeded() is true exactly when the cumulative measured
\* length is above batch_tokens or the count is above batch_size.
C4_Original ==
    (BothLimits /\ call.op = "exceeded")
    => ret = Ok(Bool(\/ Lt(batch_tokens, RawSum(added))
                     \/ Len(added) > batch_size.n))

\* C4 (amended): exceeded() is false right after reset() and after every
\* sequence of adds whose cumulative effective length - each measured length
\* L counted as L + L*L/quadratic_factor when a quadratic factor is
\* configured, as L otherwise - stays at or below batch_tokens and whose
\* count stays at or below batch_size; it is true after the first add that
\* takes the effective length above batch_tokens or the count above
\* batch_size.
C4_Exceeded ==
    (BothLimits /\ call.op = "exceeded")
    => ret = Ok(Bool(\/ Lt(batch_tokens, EffSum(added, quadratic_factor))
                     \/ Len(added) > batch_size.n))

\* exceeded() answered true for a batch within the example count whose
\* measured lengths alone stay within batch_tokens
C4_Witness ==
    /\ BothLimits
    /\ call.op = "exceeded"
    /\ ret = Ok(Bool(TRUE))
    /\ Len(added) = 2
    /\ Len(added) <= batch_size.n
    /\ Le(RawSum(added), batch_tokens)

(***************************************************************************)
(* The batch budget of a fixed-bucket policy.                              *)
(***************************************************************************)
\* the budget of an audio example was asked of a 1D policy with as many
\* batch sizes as boundaries
BudgetCall ==
    /\ kind = FB2D
    /\ call.op = "batch_budget"
    /\ Is1DTable(max_seq_len_buckets)
    /\ Len(batch_sizes) = Len(max_seq_len_buckets)
    /\ call.ex.type = Cut

\* the number of boundaries at or below the example's duration
BucketOf(ex) ==
    Cardinality({k \in 1..Len(max_seq_len_buckets) :
                    Le(max_seq_len_buckets[k].v[1], ex.duration)})

DocScenario(d) ==
    /\ max_seq_len_buckets = DocBuckets1D
    /\ batch_sizes = DocSizes1D
    /\ call.ex.duration = Num(d)

Plain_measure_length(ex) ==
    IF IsNone(ex.duration) THEN Raise(AttributeError)
    ELSE Ok(Scalar(ex.duration))

Plain_select_bucket(buckets, ex, example_len) ==
    LET len == IF example_len = PyNone THEN Plain_measure_length(ex)
               ELSE Ok(example_len)
    IN  IF len.st = "raise" THEN len ELSE bisect_right(buckets, len.val)

\* the table's first entry is not a pair
FirstNotPair ==
    /\ max_seq_len_buckets # <<>>
    /\ ~(max_seq_len_buckets[1].seq /\ Len(max_seq_len_buckets[1].v) = 2)

\* C6: a FixedBucketBatchSizeConstraint2D whose table does not start with a
\* pair answers every measure_length and select_bucket call as the plain 1D
\* policy with the same table does (same value or same exception), returns
\* the scalar duration as the length, and never enters the refinement loop.
C6_SameAs1D ==
    (kind = FB2D /\ FirstNotPair) =>
        /\ call.op = "measure_length" =>
               /\ ret = Plain_measure_length(call.ex)
               /\ call.ex.type = Cut => ret = Ok(Scalar(call.ex.duration))
        /\ call.op = "select_bucket" =>
               /\ ret = Plain_select_bucket(max_seq_len_buckets, call.ex, call.len)
               /\ ret.steps = -1

\* an audio example was put into a bucket above the first of a 1D table
C6_Witness ==
    /\ kind = FB2D
    /\ Is1DTable(max_seq_len_buckets)
    /\ call.op = "select_bucket"
    /\ call.len = PyNone
    /\ call.ex.type = Cut
    /\ ret.st = "ok"
    /\ RetIdx >= 1

(***************************************************************************)
(* MultimodalSamplingConstraint.measure_length                             *)
(***************************************************************************)
\* x = a / b, by cross-multiplication
IsQuotient(x, a, b) == x.n * b.n * a.d = a.n * x.d * b.d

\* C7: MultimodalSamplingConstraint.measure_length returns the token count of
\* a text sequence or text pair, duration / token_equivalent_duration of an
\* audio example (whether or not it already carries num_tokens), given a
\* configured token_equivalent_duration, and raises the unsupported-type
\* error for any other example.
C7_MeasureLength ==
    (kind = MSC /\ call.op = "measure_length") =>
        /\ call.ex.type \in {TextExample, TextPairExample}
               => ret = Ok(Scalar(call.ex.num_tokens))
        /\ (call.ex.type = Cut /\ ~IsNone(token_equivalent_duration))
               => /\ ret.st = "ok"
                  /\ IsScalarLen(ret.val)
                  /\ IsQuotient(ret.val.v[1], call.ex.duration,
                                token_equivalent_duration)
        /\ call.ex.type = Other => ret = Raise(UnsupportedType)

\* a 2-second cut that carries num_tokens = 5 measured 4 at 0.5 s per token
C7_Witness ==
    /\ kind = MSC
    /\ call.op = "measure_length"
    /\ call.ex.type = Cut
    /\ call.ex.num_tokens = Num(5)
    /\ token_equivalent_duration = R(1, 2)
    /\ ret = Ok(Scalar(Num(4)))

(***************************************************************************)
(* The quadratic penalty.                                                  *)
(***************************************************************************)
\* the lengths an add can book under the configuration
LenDomain ==
    {MSC_add(token_equivalent_duration, internal, ex).ex.num_tokens :
        ex \in {e \in Fresh :
                   MSC_add(token_equivalent_duration, internal, e).ret.st = "ok"}}

\* batches of more and shorter examples than the current one, with the same
\* raw sum: every length is below every length of the current batch
Alternatives ==
    IF added = <<>> THEN {}
    ELSE {B \in SeqsUpTo({x \in LenDomain : Lt(x, added[1])}, MaxAdds) :
             /\ Len(B) > Len(added)
             /\ \A i \in 1..(Len(B) - 1) : Le(B[i], B[i + 1])
             /\ RawSum(B) = RawSum(added)}

OtherFactors == {Num(1), Num(2), Num(3), Num(4), Num(8)}

\* C8: every add of an example of measured length L raises the running
\* total by L + L*L/q (by L when no quadratic factor q is configured), so
\* the total is the sum of these over the batch; it is never below the raw
\* sum; with q configured, a batch of fewer, longer examples has a strictly
\* larger total than any batch of more, shorter examples with the same raw
\* sum; and a larger q gives a smaller total for the same batch.
C8_Quadratic ==
    kind = MSC =>
        /\ internal.current = EffSum(added, quadratic_factor)
        /\ internal.num_examples = Len(added)
        /\ Le(RawSum(added), internal.current)
        /\ (Ready /\ ~IsNone(quadratic_factor)) =>
              /\ \A B \in Alternatives :
                     Lt(EffSum(B, quadratic_factor), internal.current)
              /\ \A q \in OtherFactors :
                     (Lt(quadratic_factor, q) /\ Lt(Num(0), RawSum(added)))
                         => Lt(EffSum(added, q), internal.current)

\* one example of length 2 under q = 2 costs 4, more than two of length 1
C8_Witness ==
    /\ kind = MSC
    /\ Ready
    /\ quadratic_factor = Num(2)
    /\ added = <<Num(2)>>
    /\ internal.current = Num(4)
    /\ <<Num(1), Num(1)>> \in Alternatives

(***************************************************************************)
(* bucketing_2d_enabled and the multimodal fixed-bucket policy.            *)
(***************************************************************************)
FirstIsPair ==
    /\ max_seq_len_buckets # <<>>
    /\ max_seq_len_buckets[1].seq
    /\ Len(max_seq_len_buckets[1].v) = 2

\* C9: bucketing_2d_enabled has a value for every boundary table the policy
\* is constructed with, and it is true exactly when the table's first entry
\* is a sequence of two elements, whatever the other entries are.
C9_Original ==
    (IsFixedBucket /\ call.op = "bucketing_2d_enabled")
    => /\ ret.st = "ok"
       /\ ret.val = Bool(FirstIsPair)

\* C10: on a MultimodalFixedBucketBatchSizeConstraint2D with a 2D table every
\* measure_length call and every select_bucket call, with an example or with
\* a precomputed example_len (a pair, as the 2D table asks for), ends in the
\* "not yet supported" error.
C10_Original ==
    (/\ kind = MFB2D
     /\ FirstIsPair
     /\ call.op \in {"measure_length", "select_bucket"}
     /\ call.len = PyNone \/ IsPairLen(call.len))
    => ret = Raise(NotYetSupported)

(***************************************************************************)
(* Missing configuration and unsupported examples.                         *)
(***************************************************************************)
\* the last call failed for want of token_equivalent_duration
FailedForMissingDuration ==
    /\ ret.st = "raise"
    /\ ret.err \in {TypeError, NoTokenEquivalentDuration}

\* C11: with multimodal sampling requested and token_equivalent_duration not
\* configured, the error is raised by get_lhotse_dataloader_from_config; no
\* run reaches an add or measure_length call on an audio example that then
\* fails for the missing value.
C11_Original ==
    (/\ config.use_multimodal_sampling
     /\ IsNone(config.token_equivalent_duration)
     /\ FailedForMissingDuration)
    => call.op \notin {"add", "measure_length"}

\* C12: measure_length of each of the three constraints, given an example
\* that is neither audio nor text (here one that carries a duration and a
\* num_tokens attribute), ends in the unsupported-type error.
C12_Original ==
    (/\ Constructed
     /\ IsFixedBucket => FirstNotPair
     /\ call.op = "measure_length"
     /\ call.ex.type = Other
     /\ ~IsNone(call.ex.duration)
     /\ ~IsNone(call.ex.num_tokens))
    => ret = Raise(UnsupportedType)

(***************************************************************************)
(* MultimodalSamplingConstraint.add                                        *)
(***************************************************************************)
\* the step is a successful add on the multimodal sampling constraint
AddStep == kind = MSC /\ call'.op = "add" /\ ret'.st = "ok"

\* C13: add on an audio example stores duration / token_equivalent_duration
\* on the example as num_tokens before the core is called: the core books
\* the stored value, and no later call changes it (a repeated add stores the
\* same value again); add on a text example leaves the example as it was.
C13_AddCaches ==
    [][/\ AddStep =>
           /\ call'.ex.type = Cut =>
                  /\ IsQuotient(example'.num_tokens, call'.ex.duration,
                                token_equivalent_duration)
                  /\ example' = [call'.ex EXCEPT !.num_tokens = example'.num_tokens]
           /\ call'.ex.type # Cut => example' = call'.ex
           /\ internal'.current =
                  Add(internal.current, TC_size(internal, example'.num_tokens))
           /\ internal'.num_examples = internal.num_examples + 1
       /\ (kind = MSC /\ call.op = "add" /\ ret.st = "ok"
           /\ call'.op \notin {"none"})
           => example'.num_tokens = example.num_tokens]_vars

\* a 2-second cut that carried num_tokens = 5 was added at 0.5 s per token:
\* it now carries 4, and 4 is what the core booked
C13_Witness ==
    /\ kind = MSC
    /\ call.op = "add"
    /\ ret.st = "ok"
    /\ call.ex.type = Cut
    /\ call.ex.num_tokens = Num(5)
    /\ example.num_tokens = Num(4)
    /\ IsNone(quadratic_factor)
    /\ internal.num_examples = 1
    /\ internal.current = Num(4)

(***************************************************************************)
(* The 2D length of an audio example.                                      *)
(***************************************************************************)
\* the sum of the token counts of the supervisions that have tokens
RECURSIVE TokensOf(_)
TokensOf(sp) ==
    IF sp = <<>> THEN 0
    ELSE (IF IsNone(Head(sp)) THEN 0 ELSE Head(sp).n) + TokensOf(Tail(sp))

NoTokens(ex) == IsNone(ex.tpt) /\ \A i \in 1..Len(ex.sup) : IsNone(ex.sup[i])

TokenCount(ex) == IF ~IsNone(ex.tpt) THEN ex.tpt ELSE Num(TokensOf(ex.sup))

Measured2D ==
    /\ kind = FB2D
    /\ FirstIsPair
    /\ call.op = "measure_length"
    /\ call.ex.type = Cut

\* C14 as stated: with 2D bucketing enabled, measure_length of an audio
\* example returns (duration, token_count) with token_count the length of the
\* prompted transcript when there is one, and otherwise the sum of the token
\* lengths of the supervisions that have tokens.
C14_Original ==
    Measured2D => ret = Ok(Pair(call.ex.duration, TokenCount(call.ex)))

\* C14 (amended): with 2D bucketing enabled, measure_length of an audio
\* example that has a prompted transcript or at least one supervision with
\* tokens returns (duration, token_count), token_count being the length of
\* the prompted transcript whenever present (whatever the supervisions'
\* tokens) and otherwise the sum over the supervisions that have tokens; for
\* an audio example with neither it raises the untokenized-supervisions
\* assertion error.
C14_MeasureLength2D ==
    Measured2D =>
        /\ ~NoTokens(call.ex)
               => ret = Ok(Pair(call.ex.duration, TokenCount(call.ex)))
        /\ NoTokens(call.ex) => ret = Raise(Untokenized)

\* a cut with a 3-token prompted transcript and a 2-token supervision
\* measured (duration, 3)
C14_Witness ==
    /\ Measured2D
    /\ call.ex.tpt = Num(3)
    /\ call.ex.sup = <<Num(2)>>
    /\ ret = Ok(Pair(call.ex.duration, Num(3)))

(***************************************************************************)
(* The tokens-per-second filter.                                           *)
(***************************************************************************)
FilterCall == call.op = "TokenPerSecondFilter"

\* tps_min <= 0 and tps_max infinite
FilterDisabled == Le(config.min_tps, Num(0)) /\ config.max_tps = Inf

\* C15: an enabled TokenPerSecondFilter, called on an audio example without
\* prompted transcript and without a supervision with tokens, ends in the
\* error that tokenization must come first and returns no verdict; a
\* non-audio example, and every example under a disabled filter (tps_min <= 0
\* and tps_max infinite), passes without being measured.
C15_Filter ==
    FilterCall =>
        /\ (call.ex.type = Cut /\ ~FilterDisabled /\ NoTokens(call.ex))
               => ret = Raise(Untokenized)
        /\ (call.ex.type # Cut \/ FilterDisabled) => ret = Ok(Bool(TRUE))

\* the filter with range [0, 2] met an untokenized cut
C15_Witness ==
    /\ FilterCall
    /\ config.min_tps = Num(0)
    /\ config.max_tps = Num(2)
    /\ call.ex.type = Cut
    /\ NoTokens(call.ex)
    /\ ret = Raise(Untokenized)

(***************************************************************************)
(* reset                                                                   *)
(***************************************************************************)
\* the core of a newly constructed constraint with the same configuration
FreshInternal == MSC_post_init(batch_size, batch_tokens, quadratic_factor)

\* the answers after the adds of a sequence of examples, starting from tc
RECURSIVE AnswersAfter(_, _)
AnswersAfter(tc, exs) ==
    IF exs = <<>> THEN <<>>
    ELSE LET r == MSC_add(token_equivalent_duration, tc, Head(exs))
         IN  <<<<r.ret.st, MSC_exceeded(r.tc), MSC_close_to_exceeding(r.tc)>>>>
             \o AnswersAfter(r.tc, Tail(exs))

\* sequences of one and of two adds
AddSequences ==
    {<<e>> : e \in Texts} \cup {<<e, f>> : e \in Texts, f \in PlainCuts}

\* C16: reset() returns the constraint to the state of a newly constructed
\* one: running total and example count are zero, the limits and the
\* quadratic factor are the configured ones, exceeded() is false, every
\* sequence of adds that follows gets the answers a new constraint gives, and
\* a second reset() changes nothing.
C16_Reset ==
    kind = MSC =>
        /\ MSC_reset(MSC_reset(internal)) = MSC_reset(internal)
        /\ MSC_reset(internal).max_tokens = batch_tokens
        /\ MSC_reset(internal).max_examples = batch_size
        /\ MSC_reset(internal).quadratic_length = quadratic_factor
        /\ call.op = "reset" =>
               /\ internal = FreshInternal
               /\ internal.current = Num(0)
               /\ internal.num_examples = 0
               /\ ~MSC_exceeded(internal)
               /\ \A exs \in AddSequences :
                      AnswersAfter(internal, exs) = AnswersAfter(FreshInternal, exs)

\* reset() was called on a constraint that had booked a 1-second cut as 2
\* tokens
C16_Witness ==
    /\ kind = MSC
    /\ call.op = "reset"
    /\ example.type = Cut
    /\ example.duration = Num(1)
    /\ example.num_tokens = Num(2)
    /\ internal.num_examples = 0
    /\ ~IsNone(batch_tokens)

(***************************************************************************)
(* The tables of a fixed-bucket policy.                                    *)
(***************************************************************************)
\* C17: after construction no call on a fixed-bucket policy -
\* measure_length, select_bucket on its 1D and 2D paths, add, exceeded,
\* close_to_exceeding, reset - changes max_seq_len_buckets or batch_sizes:
\* they stay the tables the policy was constructed with.
C17_TablesImmutable ==
    [][IsFixedBucket =>
           /\ max_seq_len_buckets' = max_seq_len_buckets
           /\ batch_sizes' = batch_sizes
           /\ max_seq_len_buckets' = bucket_duration_bins.list
           /\ batch_sizes' = config.bucket_batch_size.list]_vars

\* two examples were added to bucket 3 of the documented 2D table, which the
\* refinement loop selects, and exceeded() was asked
C17_Witness ==
    /\ kind = FB2D
    /\ max_seq_len_buckets = DocBuckets2D
    /\ batch_sizes = <<4, 3, 2, 1>>
    /\ call.op = "exceeded"
    /\ fb_state = FBState(Index(3), 2)
    /\ ret = Ok(Bool(TRUE))

(***************************************************************************)
(* Independence of the workers' constraints.                               *)
(***************************************************************************)
\* what worker w's constraint shows: totals, count and answers
ViewOf(ws, w) ==
    <<InternalOf(ws, w).current, InternalOf(ws, w).num_examples,
      MSC_exceeded(InternalOf(ws, w)),
      MSC_close_to_exceeding(InternalOf(ws, w))>>

\* C18: the constraints of two workers have accumulators of their own: a
\* call of add, exceeded, close_to_exceeding or reset by one worker leaves
\* the other worker's running total, count and exceeded() /
\* close_to_exceeding() answers as they were, in every interleaving.
C18_Independent ==
    [][Started =>
           \A w \in Workers :
               workers'.last = w => ViewOf(workers', 3 - w) = ViewOf(workers, 3 - w)]_vars

\* worker 1 has exceeded its batch while worker 2, asked last, has an empty
\* one
C18_Witness ==
    /\ Started
    /\ workers.last = 2
    /\ call.op = "exceeded"
    /\ ret = Ok(Bool(FALSE))
    /\ InternalOf(workers, 2).num_examples = 0
    /\ InternalOf(workers, 1).num_examples = 3
    /\ MSC_exceeded(InternalOf(workers, 1))

(***************************************************************************)
(* The resolution of the boundary table and of the constraint.             *)
(***************************************************************************)
\* get_lhotse_dataloader_from_config has run lines 264-296
Resolved == kind # Unresolved \/ call.op = "get_lhotse_dataloader_from_config"

AssertionFailed ==
    /\ kind = Unresolved
    /\ ret = Raise(CannotUseBucketBatchSize)

\* bucket_batch_size is configured, bucket_duration_bins is not
SizesWithoutBins ==
    /\ Resolved
    /\ config.bucket_batch_size.some
    /\ ~config.bucket_duration_bins.some

FiniteMaxDuration ==
    ~IsNone(config.max_duration) /\ config.max_duration # Inf

Begin ==
    IF ~IsNone(config.min_duration) /\ Lt(Num(0), config.min_duration)
    THEN config.min_duration ELSE Num(0)

\* b holds n scalars that rise from lo to hi in n + 1 equal steps
EvenlyBetween(b, lo, hi) ==
    LET at(i) == IF i = 0 THEN lo
                 ELSE IF i = Len(b) + 1 THEN hi ELSE b[i].v[1]
    IN  /\ \A i \in 1..Len(b) : ~b[i].seq /\ Lt(lo, b[i].v[1]) /\ Lt(b[i].v[1], hi)
        /\ \A i \in 0..Len(b) : Lt(at(i), at(i + 1))
        /\ \A i \in 1..Len(b) : Sub(at(i + 1), at(i)) = Sub(at(1), at(0))

Select2DCall ==
    /\ kind = FB2D
    /\ call.op = "select_bucket"
    /\ Is2DTable(max_seq_len_buckets)
    /\ CallLen.st = "ok"
    /\ IsPairLen(CallLen.val)

\* the length pair of the call sorts at or after the table's last boundary
AfterLastBoundary ==
    LET last == max_seq_len_buckets[Len(max_seq_len_buckets)].v
    IN  ~LexLt(<<LenD, LenT>>, <<last[1], last[2]>>)

\* C21: for every 2D boundary table of N entries and every example length
\* pair, 2D select_bucket completes and returns an index in 0..N without
\* raising; for a length pair that sorts after the last boundary it returns
\* N, the open-ended last bucket.
C21_Original ==
    Select2DCall =>
        /\ ret.st = "ok"
        /\ RetIdx \in 0..Len(max_seq_len_buckets)
        /\ AfterLastBoundary => RetIdx = Len(max_seq_len_buckets)

(***************************************************************************)
(* tokenize.                                                               *)
(***************************************************************************)
\* part p holds the tokens of its own text in its own language
OwnTokens(p) ==
    p.tokens = asarray(tokenizer(tokenized.tokenizer, p.text, p.language))

\* C22: after tokenize every part of the example holds the tokenization of
\* its own text in its own language: a text pair's source and target each
\* their own, a text example its own, every supervision of an audio example
\* that has text its own; an example of any other type ends in the
\* unsupported-type error.
C22_Original ==
    tokenized.op = "tokenize" =>
        LET ex == tokenized.example
        IN  IF ex.type = TextPairExample
            THEN /\ tokenized.st = "ok"
                 /\ OwnTokens(ex.source)
                 /\ OwnTokens(ex.target)
            ELSE IF ex.type = TextExample
            THEN tokenized.st = "ok" /\ OwnTokens(ex.own)
            ELSE IF ex.type = Cut
            THEN /\ tokenized.st = "ok"
                 /\ \A i \in 1..Len(ex.supervisions) :
                        ex.supervisions[i].text.some
                        => OwnTokens(ex.supervisions[i])
            ELSE /\ tokenized.st = "raise"
                 /\ tokenized.err = UnsupportedTypeOfExample

(***************************************************************************)
(* Packed sequences in the fine-tuning data module.                        *)
(***************************************************************************)
\* the module was given a packed sequence
Packed == datamodule.self.packed_sequence_size > 0

\* C23: a FineTuningDataModule is constructed with a packed sequence
\* (packed_sequence_size > 0) only if micro_batch_size is 1 or less:
\* construction with a packed sequence and micro_batch_size > 1 raises the
\* ValueError; without a packed sequence construction does not raise it,
\* train_dataloader reads the unpacked training path, and train_path_packed
\* raises ValueError.
C23_PackedSequence ==
    /\ (datamodule.constructed = "ok" /\ Packed)
       => datamodule.self.micro_batch_size <= 1
    /\ datamodule.op = "__init__"
       => /\ (Packed /\ datamodule.self.micro_batch_size > 1)
             => /\ datamodule.st = "raise"
                /\ datamodule.err = MicroBatchSizeShouldBe1
          /\ ~Packed => datamodule.st = "ok"
    /\ (datamodule.op = "train_dataloader" /\ ~Packed)
       => /\ datamodule.st = "ok"
          /\ datamodule.path = Path("training.jsonl", 0)
    /\ (datamodule.op = "train_path_packed" /\ ~Packed)
       => /\ datamodule.st = "raise"
          /\ datamodule.err = TrainPathPackedInvalid

\* a packed sequence of size 2 with micro_batch_size 2 was refused
C23_Witness ==
    /\ datamodule.op = "__init__"
    /\ datamodule.self.packed_sequence_specs.some
    /\ datamodule.self.packed_sequence_size = 2
    /\ datamodule.self.micro_batch_size = 2
    /\ datamodule.st = "raise"
    /\ datamodule.constructed = "raise"

====
